---------------------------- MODULE Spec2Model ----------------------------
(***************************************************************************)
(* A model of smTIRF_simulation_2.py: a generator of synthetic microscopy  *)
(* frames.  create_dots builds a population of dots (moving, static bright *)
(* and stationary pulsating), save_dot_list writes the ground-truth        *)
(* manifest, and main renders FRAMES frames with draw_frame, which also    *)
(* advances every dot.                                                     *)
(*                                                                         *)
(* Numbers.  Python floats are modelled in fixed point:                    *)
(*   - coordinates and velocities are integers in units of 1/Q pixel;      *)
(*   - a pulse (the value of math.sin) is floor(PulseScale * sin(angle)),  *)
(*     read from tables computed with math.sin at the angles the program   *)
(*     evaluates.  int(MAX_DOT_SIZE * (pulse + 1) / 2) changes value only  *)
(*     at pulses that are multiples of 0.2, so the floor loses nothing of  *)
(*     the size;                                                           *)
(*   - a fraction (MOVING_PERCENTAGE) is an integer number of hundredths.  *)
(* The module-level configuration constants NUM_DOTS, MOVING_PERCENTAGE    *)
(* and STATIC_BRIGHT_PERCENTAGE are the run's input: the variable cfg,     *)
(* fixed in the initial state.  The pseudo-random generator is a           *)
(* deterministic stream fixed by its seed: the variable rng.               *)
(***************************************************************************)
EXTENDS Integers, Sequences, FiniteSets

VARIABLES
    cfg,            \* the configuration constants of lines 15-17
    rng,            \* state of the pseudo-random generator (module random)
    dots,           \* main's list of Dot objects
    dot_list,       \* content of DOT_LIST_FILE written by save_dot_list
    summary,        \* the counts save_dot_list prints
    frame_num,      \* the next index of main's loop over range(FRAMES)
    frames,         \* main's list of rendered frames
    update_calls,   \* per dot, the number of Dot.update calls made so far
    output,         \* content of OUTPUT_FILE written by cv2.imwritemulti
    pc              \* main's position

vars == <<cfg, rng, dots, dot_list, summary, frame_num, frames, update_calls, output, pc>>

-----------------------------------------------------------------------------
(* Program constants *)

WIDTH == 512
HEIGHT == 512
FRAMES == 500
MAX_DOT_SIZE == 5
MOVE_SPEED == 2

\* The reference configuration of lines 15-17 (fractions in hundredths).
NUM_DOTS == 200
MOVING_PERCENTAGE == 10
STATIC_BRIGHT_PERCENTAGE == 5

(* Resolution of the fixed-point numbers *)

\* Coordinates and velocities are counted in 1/Q pixel.
Q == 2

\* A pulse p stands for the real number p / PulseScale.
PulseScale == 1000

\* The frames of one period of sin(frame_num * 0.2 + phase): 2*pi / 0.2 = 31.4...
CycleFrames == 32

\* A phase is Offset + k * 0.2 radians with k in 0 .. MaxPhaseStep: the largest
\* k that keeps every phase below 2*pi, the upper end of random.uniform(0, 2*pi).
MaxPhaseStep == 30

(* Bounds of the model *)

\* Seeds of the pseudo-random generator: 0 .. NumSeeds-1.
NumSeeds == 6

\* Dot counts of the configurations of Init: -2 .. MaxDots.
MaxDots == 3

\* Dot counts of the configurations of InitFactory: 0 .. MaxCount, and NUM_DOTS.
MaxCount == 8

-----------------------------------------------------------------------------
(* Values of math.sin, as floor(PulseScale * sin(a)).                      *)
(* Entry n+1 of a table is for the angle Offset + n * 0.2, where Offset is *)
(* 0 (SinGrid), pi/2 - 7*0.2 (SinPeak: entry 8 is sin(pi/2) = 1.0) or      *)
(* 3*pi/2 - 23*0.2 (SinTrough: entry 24 is sin(3*pi/2) = -1.0).            *)

SinGrid ==
    <<
       0, 198, 389, 564, 717, 841, 932, 985, 999, 973, 909, 808,
       675, 515, 334, 141, -59, -256, -443, -612, -757, -872, -952, -994,
       -997, -959, -884, -773, -632, -465, -280, -84, 116, 311, 494, 656,
       793, 898, 967, 998, 989, 940, 854, 734, 584, 412, 222, 24,
       -175, -367, -545, -700, -828, -923, -981, -1000, -980, -920, -823, -694,
       -537, -359, -166, 33, 231, 420, 592, 740, 859, 943, 990, 998,
       965, 894, 788, 650, 486, 303, 107, -92, -288, -473, -639, -779,
       -888, -962, -997, -993, -949, -868, -751, -605, -435, -247, -50, 149,
       343, 523, 681, 813, 912, 975, 999, 983, 928, 836, 711, 557,
       381, 189, -9, -208, -398, -572, -724, -847, -936, -987, -1000, -972,
       -906, -804, -669, -508, -327, -133, 67, 264, 450, 618, 762, 875,
       954, 994, 995, 956, 879, 767, 624, 456, 270, 74, -126, -320,
       -502, -664, -800, -903, -971, -999, -989, -938, -850, -729, -578, -405,
       -215, -16, 183, 374, 551, 706, 832, 926, 982, 999, 977, 915,
       817, 687, 529, 349, 156, -43, -241, -429, -600, -747, -864, -947,
       -992, -998, -964, -891, -783, -644, -479, -295, -99, 100, 296, 480,
       644, 783, 891, 963, 997, 991, 946, 862, 745, 597, 426, 238,
       40, -159, -352, -531, -689, -819, -917, -978, -1000, -983, -926, -832,
       -705, -550, -374, -182, 17, 215, 405, 579, 729, 850, 938, 988,
       998, 969, 901, 797, 662, 500, 318, 123, -77, -273, -459, -626,
       -769, -881, -957, -996, -995, -954, -876, -762, -618, -449, -263, -66,
       134, 328, 509, 670, 804, 906, 972, 999, 986, 934, 845, 722,
       570, 395, 205, 7, -192, -383, -559, -713, -838, -930, -985, -1000,
       -976, -913, -813, -681, -522, -342, -149, 51, 248, 436, 606, 752,
       868, 949, 992, 996, 960, 886, 777, 636, 470, 286, 90, -110,
       -305, -488, -652, -790, -896, -967, -999, -991, -944, -859, -740, -591,
       -419, -230, -32, 167, 359, 538, 694, 823, 920, 979, 999, 980,
       922, 826, 698, 542, 364, 172, -27, -225, -414, -587, -736, -856,
       -942, -990, -999, -968, -898, -793, -656, -493, -310, -115, 84, 281,
       466, 632, 773, 884, 959, 996, 993, 951, 870, 755, 610, 440,
       253, 56, -143, -337, -518, -677, -810, -911, -975, -1000, -986, -932,
       -841, -717, -564, -388, -197, 1, 200, 391, 566, 718, 842, 932,
       985, 999, 973, 908, 807, 674, 513, 333, 139, -61, -258, -445,
       -614, -758, -873, -953, -994, -997, -959, -883, -772, -630, -464, -278,
       -82, 118, 313, 495, 658, 794, 899, 968, 998, 989, 940, 853,
       733, 583, 410, 221, 22, -177, -369, -546, -702, -829, -924, -982,
       -1000, -979, -919, -822, -693, -536, -357, -164, 35, 233, 421, 593,
       741, 860, 944, 990, 997, 965, 893, 787, 648, 484, 301, 105,
       -94, -290, -474, -640, -780, -889, -962, -998, -993, -949, -867, -750,
       -604, -433, -246, -48, 151, 344, 524, 683, 814, 913, 976, 999,
       983, 928, 835, 709, 555, 379, 188, -11, -210, -400, -574, -725,
       -848, -936, -988, -1000, -972, -905, -803, -668, -507, -325, -131, 68,
       265, 452, 620, 763, 876, 954, 994, 995, 955, 878, 765, 622,
       455, 269, 72, -128, -322, -504, -665, -801, -904, -971, -1000, -988,
       -938, -850, -728
    >>

SinPeak ==
    <<
       169, 362, 540, 696, 825, 921, 980, 1000, 980, 921, 825, 696,
       540, 362, 169, -30, -228, -417, -589, -738, -857, -943, -990, -999,
       -967, -897, -791, -654, -491, -308, -113, 87, 283, 468, 634, 775,
       885, 960, 996, 993, 950, 869, 753, 608, 438, 251, 53, -146,
       -340, -520, -679, -812, -912, -975, -1000, -985, -931, -840, -715, -561,
       -386, -195, 4, 203, 393, 568, 720, 843, 933, 986, 999, 972,
       907, 805, 672, 511, 330, 136, -63, -260, -447, -616, -760, -874,
       -953, -995, -996, -958, -882, -770, -628, -461, -276, -79, 120, 315,
       497, 660, 796, 900, 969, 998, 988, 939, 852, 731, 581, 408,
       218, 20, -179, -371, -548, -704, -831, -925, -982, -1000, -979, -918,
       -821, -691, -533, -355, -162, 38, 235, 424, 595, 743, 861, 945,
       991, 997, 964, 892, 785, 646, 482, 298, 103, -97, -293, -477,
       -642, -782, -890, -963, -998, -993, -948, -865, -749, -602, -431, -243,
       -46, 154, 347, 526, 685, 816, 914, 976, 999, 983, 927, 834,
       708, 553, 377, 185, -14, -212, -402, -576, -727, -849, -937, -988,
       -1000, -971, -904, -801, -666, -505, -323, -128, 71, 268, 454, 622,
       765, 878, 955, 995, 994, 955, 877, 764, 620, 452, 266, 69,
       -130, -325, -506, -667, -802, -905, -972, -1000, -988, -937, -848, -726,
       -575, -400, -210, -12, 187, 378, 555, 709, 835, 927, 983, 999,
       976, 914, 815, 683, 525, 345, 152, -47, -245, -433, -603, -750,
       -866, -949, -993, -998, -963, -889, -781, -641, -475, -291, -95, 105,
       300, 484, 648, 786, 893, 964, 997, 990, 944, 860, 742, 594,
       422, 234, 36, -163, -356, -535, -692, -822, -919, -979, -1000, -982,
       -924, -830, -702, -547, -369, -177, 22, 220, 409, 582, 732, 853,
       939, 988, 998, 968, 899, 795, 658, 496, 314, 119, -81, -277,
       -463, -630, -772, -883, -959, -996, -994, -953, -873, -759, -614, -445,
       -259, -62, 138, 332, 513, 673, 806, 908, 973, 999, 985, 932,
       842, 719, 566, 391, 201, 2, -197, -387, -563, -716, -841, -932,
       -985, -1000, -975, -911, -811, -678, -518, -338, -144, 55, 252, 440,
       609, 755, 870, 950, 993, 996, 959, 884, 774, 633, 466, 281,
       85, -114, -310, -492, -655, -793, -898, -968, -999, -990, -942, -856,
       -737, -588, -415, -226, -28, 171, 364, 541, 697, 826, 921, 980,
       999, 979, 920, 824, 695, 538, 360, 168, -31, -229, -418, -590,
       -739, -858, -943, -991, -999, -967, -896, -790, -653, -489, -306, -111,
       89, 285, 470, 636, 776, 886, 960, 996, 992, 949, 868, 752,
       606, 436, 249, 52, -148, -341, -521, -681, -813, -912, -976, -1000,
       -985, -930, -839, -714, -560, -384, -193, 6, 204, 395, 569, 721,
       844, 934, 986, 999, 972, 906, 804, 670, 510, 329, 134, -65,
       -262, -449, -617, -761, -875, -954, -995, -996, -958, -881, -769, -627,
       -460, -274, -77, 122, 317, 499, 661, 797, 901, 969, 998, 988,
       938, 851, 730, 579, 406, 216, 18, -181, -373, -550, -705, -832,
       -926, -983, -1000, -978, -917, -820, -690, -532, -353, -160, 39, 237,
       425, 597, 744, 862, 945, 991, 997, 964, 892, 784, 645, 480,
       297, 101, -99, -294, -478, -643, -783, -891, -964, -998, -992, -947,
       -865, -747, -600
    >>

SinTrough ==
    <<
       112, 307, 490, 653, 790, 896, 966, 998, 989, 942, 856, 737,
       588, 416, 227, 29, -170, -363, -541, -697, -826, -922, -981, -1000,
       -981, -922, -826, -697, -541, -363, -170, 29, 227, 416, 588, 737,
       856, 942, 989, 998, 966, 896, 790, 653, 490, 307, 112, -88,
       -284, -469, -635, -776, -886, -961, -997, -994, -951, -870, -754, -609,
       -439, -252, -54, 145, 339, 519, 678, 811, 911, 974, 999, 984,
       930, 839, 714, 560, 385, 194, -5, -204, -394, -569, -721, -844,
       -934, -987, -1000, -973, -908, -806, -673, -512, -331, -137, 62, 259,
       446, 615, 759, 873, 952, 994, 995, 957, 881, 769, 627, 460,
       275, 78, -121, -316, -498, -661, -797, -901, -970, -999, -989, -940,
       -853, -732, -582, -409, -219, -21, 178, 370, 547, 703, 830, 924,
       981, 999, 978, 917, 820, 690, 532, 354, 161, -39, -236, -425,
       -596, -744, -862, -946, -992, -998, -965, -893, -786, -647, -483, -299,
       -104, 96, 292, 476, 641, 781, 889, 962, 997, 992, 947, 864,
       748, 601, 430, 242, 45, -155, -348, -527, -686, -817, -915, -977,
       -1000, -984, -928, -835, -709, -554, -378, -186, 13, 211, 401, 575,
       726, 848, 936, 987, 999, 970, 903, 800, 665, 504, 322, 127,
       -72, -269, -455, -623, -766, -879, -956, -996, -995, -956, -878, -765,
       -621, -453, -267, -70, 129, 324, 505, 666, 801, 904, 971, 999,
       987, 936, 847, 725, 574, 399, 209, 11, -188, -379, -556, -710,
       -836, -928, -984, -1000, -977, -915, -816, -684, -526, -346, -153, 46,
       244, 432, 602, 749, 865, 948, 992, 997, 962, 888, 780, 640,
       474, 290, 94, -106, -301, -485, -649, -787, -894, -965, -998, -991,
       -945, -861, -743, -595, -423, -235, -37, 162, 355, 534, 691, 821,
       918, 978, 999, 981, 923, 829, 701, 546, 368, 176, -23, -221,
       -410, -583, -733, -854, -940, -989, -999, -969, -900, -796, -659, -497,
       -315, -120, 80, 276, 462, 629, 771, 882, 958, 995, 993, 952,
       872, 758, 613, 444, 258, 61, -139, -333, -514, -674, -807, -909,
       -974, -1000, -986, -933, -843, -720, -567, -392, -202, -3, 196, 386,
       562, 715, 840, 931, 984, 999, 974, 910, 810, 677, 517, 337,
       143, -56, -253, -441, -610, -756, -871, -951, -994, -997, -960, -885,
       -775, -634, -467, -282, -86, 113, 309, 491, 654, 792, 897, 967,
       998, 989, 941, 855, 736, 587, 414, 225, 27, -172, -365, -542,
       -698, -827, -922, -981, -1000, -980, -921, -825, -696, -539, -361, -169,
       30, 228, 417, 589, 738, 857, 942, 990, 998, 966, 895, 789,
       652, 488, 305, 110, -90, -286, -471, -637, -777, -887, -961, -997,
       -993, -950, -869, -753, -607, -437, -250, -53, 147, 340, 520, 680,
       812, 911, 975, 999, 984, 929, 838, 713, 559, 383, 192, -7,
       -205, -396, -570, -722, -845, -935, -987, -1000, -973, -907, -805, -671,
       -511, -330, -135, 64, 261, 448, 616, 760, 874, 953, 994, 995,
       957, 880, 768, 626, 459, 273, 76, -123, -318, -500, -662, -798,
       -902, -970, -999, -989, -939, -852, -731, -580, -407, -217, -19, 180,
       372, 549, 704, 831, 925, 982, 999, 977, 916, 819, 689, 531,
       352, 159, -40, -238, -426, -598, -745, -863, -946, -992, -998, -965,
       -893, -785, -646
    >>

SinTable == <<SinGrid, SinPeak, SinTrough>>

-----------------------------------------------------------------------------
(* Arithmetic *)

\* int(n / d) for d > 0: Python's int() truncates toward zero.
Trunc(n, d) == IF n >= 0 THEN n \div d ELSE -((-n) \div d)

Max(a, b) == IF a >= b THEN a ELSE b
Min(a, b) == IF a <= b THEN a ELSE b

\* range(n): the indices a Python loop over range(n) visits, none when n <= 0.
Range(n) == 0 .. (n - 1)

-----------------------------------------------------------------------------
(* The pseudo-random generator.  The module random is a deterministic      *)
(* generator: the seed fixes every later draw.  It is modelled by a linear *)
(* congruential generator; each draw advances the state once.              *)

Rand(r) == (r * 75 + 74) % 65537

\* random.randint(a, b): an integer of a..b (a <= b), here one of the ends, their
\* neighbours or the middle.  The result is in 1/Q pixel.
RandInt(a, b, r) ==
    LET c == <<a, b, a + 1, b - 1, (a + b) \div 2>>
    IN  Q * c[(r % 5) + 1]

\* random.uniform(-MOVE_SPEED, MOVE_SPEED): a multiple of 1/Q in that interval.
RandSpeed(r) == ((r \div 5) % (2 * MOVE_SPEED * Q + 1)) - MOVE_SPEED * Q

\* random.uniform(0, 2 * math.pi): <<table, k>> stands for Offset(table) + k * 0.2.
RandPhase(r) == <<(r % 3) + 1, (r \div 3) % (MaxPhaseStep + 1)>>

-----------------------------------------------------------------------------
(* class Dot *)

\* Mutant of NewDot: the velocity is drawn for every dot, moving or not.
NewDotAlwaysVelocity(x, y, is_moving, is_static_bright, r) ==
    LET r1 == Rand(r)
        r2 == Rand(r1)
        r3 == Rand(r2)
    IN  [x |-> x, y |-> y,
         initial_x |-> x, initial_y |-> y,
         is_moving |-> is_moving,
         is_static_bright |-> is_static_bright,
         phase |-> RandPhase(r1),
         dx |-> RandSpeed(r2),
         dy |-> RandSpeed(r3)]

\* Dot.__init__ with the generator in state r; x and y are the arguments.  The
\* phase is drawn first, then dx and dy when the dot moves.
NewDot(x, y, is_moving, is_static_bright, r) ==
    LET r1 == Rand(r)
        r2 == Rand(r1)
        r3 == Rand(r2)
    IN  [x |-> x, y |-> y,
         initial_x |-> x, initial_y |-> y,
         is_moving |-> is_moving,
         is_static_bright |-> is_static_bright,
         phase |-> RandPhase(r1),
         dx |-> IF is_moving THEN RandSpeed(r2) ELSE 0,
         dy |-> IF is_moving THEN RandSpeed(r3) ELSE 0]

\* The number of draws Dot.__init__ makes.
DotDraws(is_moving) == IF is_moving THEN 3 ELSE 1

\* Mutant of BounceAxis: the velocity is inverted but the coordinate is not clamped.
BounceAxisNoClamp(p, v, bound) ==
    LET p1 == p + v
    IN  IF p1 <= 0 \/ p1 >= bound * Q THEN <<p1, -v>> ELSE <<p1, v>>

\* Mutant of BounceAxis: the bounce test is strict (< 0, > bound).
BounceAxisStrict(p, v, bound) ==
    LET p1 == p + v
    IN  IF p1 < 0 \/ p1 > bound * Q
        THEN <<Max(0, Min(bound * Q, p1)), -v>>
        ELSE <<p1, v>>

\* One axis of Dot.update: <<coordinate, velocity>> after the step.
BounceAxis(p, v, bound) ==
    LET p1 == p + v
    IN  IF p1 <= 0 \/ p1 >= bound * Q
        THEN <<Max(0, Min(bound * Q, p1)), -v>>
        ELSE <<p1, v>>

\* Dot.update(frame_num)
Update(d, f) ==
    IF d.is_moving
    THEN LET ax == BounceAxis(d.x, d.dx, WIDTH)
             ay == BounceAxis(d.y, d.dy, HEIGHT)
         IN  [d EXCEPT !.x = ax[1], !.dx = ax[2], !.y = ay[1], !.dy = ay[2]]
    ELSE d

\* math.sin((frame_num * 0.2) + self.phase)
Pulse(d, f) == SinTable[d.phase[1]][f + d.phase[2] + 1]

\* Mutant of GetSize: a static bright dot pulsates like any other.
GetSizeNoStatic(d, f) ==
    Trunc(MAX_DOT_SIZE * (Pulse(d, f) + PulseScale), 2 * PulseScale)

\* Mutant of GetSize: the size is rounded to the nearest integer, not truncated.
GetSizeRounded(d, f) ==
    IF d.is_static_bright
    THEN MAX_DOT_SIZE * 2
    ELSE Trunc(MAX_DOT_SIZE * (Pulse(d, f) + PulseScale) + PulseScale, 2 * PulseScale)

\* Dot.get_size(frame_num)
GetSize(d, f) ==
    IF d.is_static_bright
    THEN MAX_DOT_SIZE * 2
    ELSE Trunc(MAX_DOT_SIZE * (Pulse(d, f) + PulseScale), 2 * PulseScale)

\* Mutant of IsTrueEvent: a static bright dot counts as a true event.
IsTrueEventNotMoving(d) == ~d.is_moving

\* Dot.is_true_event()
IsTrueEvent(d) == ~d.is_moving /\ ~d.is_static_bright

\* Mutant of ToDict: the current position is exported, not the initial one.
ToDictCurrent(d) ==
    [initial_x |-> d.x,
     initial_y |-> d.y,
     is_true_event |-> IsTrueEvent(d),
     is_moving |-> d.is_moving,
     is_static_bright |-> d.is_static_bright,
     is_pulsating |-> ~d.is_static_bright]

\* Dot.to_dict()
ToDict(d) ==
    [initial_x |-> d.initial_x,
     initial_y |-> d.initial_y,
     is_true_event |-> IsTrueEvent(d),
     is_moving |-> d.is_moving,
     is_static_bright |-> d.is_static_bright,
     is_pulsating |-> ~d.is_static_bright]

-----------------------------------------------------------------------------
(* create_dots *)

\* Mutant of NumOf: round(NUM_DOTS * fraction) instead of int().
NumOfRounded(num_dots, pct) == Trunc(2 * num_dots * pct + 100, 200)

\* int(NUM_DOTS * fraction), the fraction in hundredths.
NumOf(num_dots, pct) == Trunc(num_dots * pct, 100)

NumMoving(c) == NumOf(c.NUM_DOTS, c.MOVING_PERCENTAGE)
NumStaticBright(c) == NumOf(c.NUM_DOTS, c.STATIC_BRIGHT_PERCENTAGE)
NumPulsating(c) == c.NUM_DOTS - NumMoving(c) - NumStaticBright(c)

\* The generator after n draws.
RECURSIVE Skip(_, _)
Skip(r, n) == IF n = 0 THEN r ELSE Skip(Rand(r), n - 1)

\* One of the three loops of create_dots: n dots appended to ds, the i-th built
\* from two randint draws (x, then y) and the draws of Dot.__init__.
\* The result is <<dots, generator state>>.
RECURSIVE AppendDots(_, _, _, _, _, _)
AppendDots(ds, r, n, margin, is_moving, is_static_bright) ==
    IF n <= 0
    THEN <<ds, r>>
    ELSE LET rx == Rand(r)
             ry == Rand(rx)
             x == RandInt(margin, WIDTH - margin, rx)
             y == RandInt(margin, HEIGHT - margin, ry)
             d == NewDot(x, y, is_moving, is_static_bright, ry)
         IN  AppendDots(Append(ds, d), Skip(ry, DotDraws(is_moving)),
                        n - 1, margin, is_moving, is_static_bright)

\* create_dots(): moving dots, then static bright ones, then the pulsating rest.
CreateDotsResult(c, r) ==
    LET m == AppendDots(<<>>, r, NumMoving(c), 50, TRUE, FALSE)
        s == AppendDots(m[1], m[2], NumStaticBright(c), 0, FALSE, TRUE)
        p == AppendDots(s[1], s[2], NumPulsating(c), 0, FALSE, FALSE)
    IN  p

-----------------------------------------------------------------------------
(* draw_frame *)

\* The dots after the calls dot.update(frame_num) of draw_frame's loop.
UpdateAll(ds, f) == [i \in 1 .. Len(ds) |-> Update(ds[i], f)]

\* The cv2.circle calls of draw_frame, in order: <<int(x), int(y), size>> for
\* every updated dot whose size is positive.
Circles(ds, f) ==
    LET all == [i \in 1 .. Len(ds) |->
                   <<Trunc(ds[i].x, Q), Trunc(ds[i].y, Q), GetSize(ds[i], f)>>]
        Visible(c) == c[3] > 0
    IN  SelectSeq(all, Visible)

\* draw_frame(dots, frame_num), ds being the dots after their update.  The frame
\* is what was drawn on the black background; index records the call's frame_num.
\* The Gaussian blur is a fixed function of the drawn image and is not modelled.
DrawFrame(ds, f) == [index |-> f, circles |-> Circles(ds, f)]

-----------------------------------------------------------------------------
(* save_dot_list *)

DotList(ds) == [i \in 1 .. Len(ds) |-> ToDict(ds[i])]

TrueEvents(ds) == Cardinality({i \in 1 .. Len(ds) : IsTrueEvent(ds[i])})

Summary(ds) ==
    [true_events |-> TrueEvents(ds),
     false_events |-> Len(ds) - TrueEvents(ds),
     total |-> Len(ds)]

-----------------------------------------------------------------------------
(* main *)

\* Mutant of NextIndex: every other index is skipped.
NextIndexSkip(i) == i + 2

\* The successor of an index of range(FRAMES).
NextIndex(i) == i + 1

\* save_dot_list has run: DOT_LIST_FILE is written.
Saved == pc \in {"frames", "done"}

\* The configurations of Init: every dot count of -2 .. MaxDots with
\* every pair of these fractions.
Fractions == {0, 34, 67, 100}

Configs ==
    [NUM_DOTS : (-2) .. MaxDots,
     MOVING_PERCENTAGE : Fractions,
     STATIC_BRIGHT_PERCENTAGE : Fractions]

Init ==
    /\ cfg \in Configs
    /\ rng \in 0 .. (NumSeeds - 1)
    /\ dots = <<>>
    /\ dot_list = <<>>
    /\ summary = <<>>
    /\ frame_num = 0
    /\ frames = <<>>
    /\ update_calls = <<>>
    /\ output = <<>>
    /\ pc = "create_dots"

\* main, line 157: dots = create_dots()
CreateDots ==
    /\ pc = "create_dots"
    /\ LET res == CreateDotsResult(cfg, rng)
       IN  /\ dots' = res[1]
           /\ rng' = res[2]
           /\ update_calls' = [i \in 1 .. Len(res[1]) |-> 0]
    /\ pc' = "save_dot_list"
    /\ UNCHANGED <<cfg, dot_list, summary, frame_num, frames, output>>

\* main, line 160: save_dot_list(dots)
SaveDotList ==
    /\ pc = "save_dot_list"
    /\ dot_list' = DotList(dots)
    /\ summary' = Summary(dots)
    /\ pc' = "frames"
    /\ UNCHANGED <<cfg, rng, dots, frame_num, frames, update_calls, output>>

\* main, lines 166-171: one iteration of the loop over range(FRAMES).
GenerateFrame ==
    /\ pc = "frames"
    /\ frame_num \in Range(FRAMES)
    /\ LET ds == UpdateAll(dots, frame_num)
       IN  /\ dots' = ds
           /\ frames' = Append(frames, DrawFrame(ds, frame_num))
    /\ update_calls' = [i \in 1 .. Len(dots) |-> update_calls[i] + 1]
    /\ frame_num' = NextIndex(frame_num)
    /\ UNCHANGED <<cfg, rng, dot_list, summary, output, pc>>

\* main, line 175: the loop has ended; cv2.imwritemulti(OUTPUT_FILE, frames)
WriteOutput ==
    /\ pc = "frames"
    /\ frame_num \notin Range(FRAMES)
    /\ output' = frames
    /\ pc' = "done"
    /\ UNCHANGED <<cfg, rng, dots, dot_list, summary, frame_num, frames, update_calls>>

Next == CreateDots \/ SaveDotList \/ GenerateFrame \/ WriteOutput

Spec == Init /\ [][Next]_vars

-----------------------------------------------------------------------------
(* Claims C1, C8, C10: motion *)

\* The dots that move, and those that do not.
MovingDots == {i \in 1 .. Len(dots) : dots[i].is_moving}
StillDots == {i \in 1 .. Len(dots) : ~dots[i].is_moving}

\* C1: after every Dot.update of the frame loop, every moving dot created by
\* create_dots has 0 <= x <= WIDTH and 0 <= y <= HEIGHT.
C1_Clamped ==
    \A i \in MovingDots :
        /\ 0 <= dots[i].x /\ dots[i].x <= WIDTH * Q
        /\ 0 <= dots[i].y /\ dots[i].y <= HEIGHT * Q

\* C1 witness: after some frame a moving dot, updated in every frame so far, lies
\* on the low bound of an axis: its last update brought it there.
C1_Witness ==
    /\ frame_num > 0
    /\ \E i \in MovingDots :
          /\ dots[i].x = 0 \/ dots[i].y = 0
          /\ update_calls[i] = frame_num

\* One axis of a moving dot over one Dot.update: p and v before, v2 after.
Hit(p, v, bound) == p + v <= 0 \/ p + v >= bound * Q

AxisRule(p, v, v2, bound) ==
    /\ (v2 # v) <=> Hit(p, v, bound)
    /\ Hit(p, v, bound) => v2 = -v
    /\ p + v <= 0 => v2 >= 0
    /\ p + v >= bound * Q => v2 <= 0
    /\ v2 = v \/ v2 = -v

\* C8: in every Dot.update of a moving dot, for each axis independently, the
\* velocity component changes sign exactly when the coordinate after adding the
\* velocity is <= 0 or >= the bound; its magnitude never changes; after a bounce it
\* points into the frame.
C8_Bounce ==
    [][frame_num' # frame_num =>
          \A i \in MovingDots :
              /\ AxisRule(dots[i].x, dots[i].dx, dots'[i].dx, WIDTH)
              /\ AxisRule(dots[i].y, dots[i].dy, dots'[i].dy, HEIGHT)]_vars

\* C8 witness: a moving dot lies in a corner of the frame, so its last update
\* bounced on both axes.
C8_Witness ==
    /\ frame_num > 0
    /\ \E i \in MovingDots :
          /\ dots[i].x \in {0, WIDTH * Q}
          /\ dots[i].y \in {0, HEIGHT * Q}

\* C10: a dot that does not move keeps x, y, dx and dy over every frame: its
\* position is the initial position of the manifest and its velocity is (0, 0).
C10_StillDotsStay ==
    \A i \in StillDots :
        /\ dots[i].x = dots[i].initial_x
        /\ dots[i].y = dots[i].initial_y
        /\ dots[i].dx = 0
        /\ dots[i].dy = 0
        /\ Saved =>
              /\ dot_list[i].initial_x = dots[i].x
              /\ dot_list[i].initial_y = dots[i].y

\* C10 witness: all frames are rendered, a still dot lies on the frame's edge
\* (where the bounce test of Dot.update would be true) and a moving dot has moved.
C10_Witness ==
    /\ pc = "done"
    /\ \E i \in StillDots : dots[i].x = 0 \/ dots[i].x = WIDTH * Q
    /\ \E i \in MovingDots : dots[i].x # dots[i].initial_x

-----------------------------------------------------------------------------
(* Claims C2, C9: the manifest *)

\* The flags of a manifest record agree with each other.
FlagsConsistent(t) ==
    /\ t.is_pulsating = ~t.is_static_bright
    /\ t.is_true_event => t.is_pulsating
    /\ t.is_true_event => ~t.is_moving /\ ~t.is_static_bright
    /\ ~(t.is_moving /\ t.is_static_bright)

\* The number of dots of the first two loops of create_dots.
NumFalse == Max(0, NumMoving(cfg)) + Max(0, NumStaticBright(cfg))

\* C2: in every state every dot is a true event iff it is neither moving nor static
\* bright, which are the dots of the third loop of create_dots, and the four flags of
\* its manifest record are consistent.
C2_TrueEvent ==
    \A i \in 1 .. Len(dots) :
        /\ IsTrueEvent(dots[i]) = (~dots[i].is_moving /\ ~dots[i].is_static_bright)
        /\ IsTrueEvent(dots[i]) = (i > NumFalse)
        /\ FlagsConsistent(ToDict(dots[i]))
        /\ Saved => FlagsConsistent(dot_list[i])

\* C2 witness: frames were drawn for a population holding a moving dot, a static
\* bright dot and a true event.
C2_Witness ==
    /\ frame_num > 0
    /\ \E i \in 1 .. Len(dots) : dots[i].is_moving
    /\ \E i \in 1 .. Len(dots) : dots[i].is_static_bright
    /\ \E i \in 1 .. Len(dots) : IsTrueEvent(dots[i])

\* C9: the manifest does not depend on the frame loop: whenever save_dot_list
\* has run, the records and counts it wrote are those it would write now.
C9_ManifestStable ==
    Saved =>
        /\ dot_list = DotList(dots)
        /\ summary = Summary(dots)

\* C9 witness: the manifest is written and a moving dot has left its initial
\* position.
C9_Witness ==
    /\ Saved
    /\ frame_num > 0
    /\ \E i \in MovingDots :
          dots[i].x # dots[i].initial_x /\ dots[i].y # dots[i].initial_y

-----------------------------------------------------------------------------
(* Claim C4: the frame loop *)

\* C4: draw_frame is called once for each index 0 .. FRAMES-1 in increasing
\* order, the results are appended in that order, the output writer receives
\* FRAMES frames, and every dot has then been updated FRAMES times.
C4_FrameLoop ==
    /\ Len(frames) = frame_num
    /\ \A k \in 1 .. Len(frames) : frames[k].index = k - 1
    /\ \A i \in 1 .. Len(dots) : update_calls[i] = frame_num
    /\ pc = "done" =>
          /\ output = frames
          /\ Len(output) = FRAMES
          /\ \A i \in 1 .. Len(dots) : update_calls[i] = FRAMES

\* C4 witness: the frames of a population with dots have been written.
C4_Witness ==
    /\ pc = "done"
    /\ Len(dots) > 0
    /\ Len(output) = FRAMES

-----------------------------------------------------------------------------
(* Claims C5, C6: the size *)

\* total_count >= 0 and fractions in [0, 1] with a sum of at most 1.
Valid(c) ==
    /\ c.NUM_DOTS >= 0
    /\ c.MOVING_PERCENTAGE \in 0 .. 100
    /\ c.STATIC_BRIGHT_PERCENTAGE \in 0 .. 100
    /\ c.MOVING_PERCENTAGE + c.STATIC_BRIGHT_PERCENTAGE <= 100

\* The frame index of the last draw_frame call.
LastFrame == frame_num - 1

\* C5: get_size is in 0 .. 2*MAX_DOT_SIZE; it is 2*MAX_DOT_SIZE for a static
\* bright dot at every frame index and in 0 .. MAX_DOT_SIZE for any other dot.
C5_SizeRange ==
    frame_num > 0 =>
        \A i \in 1 .. Len(dots) :
            LET s == GetSize(dots[i], LastFrame)
            IN  /\ s \in 0 .. (2 * MAX_DOT_SIZE)
                /\ dots[i].is_static_bright => s = 2 * MAX_DOT_SIZE
                /\ ~dots[i].is_static_bright => s \in 0 .. MAX_DOT_SIZE

\* C5 witness: the last frame holds a static bright dot, a dot of size 0 and a
\* dot that is not static bright of size MAX_DOT_SIZE - 1.
C5_Witness ==
    /\ frame_num > 0
    /\ \E i \in 1 .. Len(dots) : dots[i].is_static_bright
    /\ \E i \in 1 .. Len(dots) : GetSize(dots[i], LastFrame) = 0
    /\ \E i \in 1 .. Len(dots) :
          ~dots[i].is_static_bright /\ GetSize(dots[i], LastFrame) = MAX_DOT_SIZE - 1

\* C6 (as amended): for a dot that is not static bright the size is
\* MAX_DOT_SIZE*(pulse+1)/2 truncated toward zero.  It is 0 on every frame where
\* MAX_DOT_SIZE*(pulse+1)/2 < 1, among them the frames where pulse = -1, and every
\* cycle has such a frame; it is MAX_DOT_SIZE only where pulse is exactly 1; with
\* phase 0 at frame 0 it is 2.
C6_Truncation ==
    frame_num > 0 =>
        \A i \in 1 .. Len(dots) :
            ~dots[i].is_static_bright =>
                LET s == GetSize(dots[i], LastFrame)
                    v == MAX_DOT_SIZE * (Pulse(dots[i], LastFrame) + PulseScale)
                IN  /\ 2 * PulseScale * s <= v
                    /\ v < 2 * PulseScale * (s + 1)
                    /\ (s = 0) <=> (v < 2 * PulseScale)
                    /\ (s = MAX_DOT_SIZE) <=> (Pulse(dots[i], LastFrame) = PulseScale)
                    /\ Pulse(dots[i], LastFrame) = -PulseScale => s = 0
                    /\ frame_num >= CycleFrames =>
                          \E f \in (frame_num - CycleFrames) .. LastFrame :
                              GetSize(dots[i], f) = 0
                    /\ dots[i].phase = <<1, 0>> => GetSize(dots[i], 0) = 2

\* C6 witness: in the last frame a dot that is not static bright has pulse 1
\* and size MAX_DOT_SIZE.
C6_Witness ==
    /\ frame_num > 0
    /\ \E i \in 1 .. Len(dots) :
          /\ ~dots[i].is_static_bright
          /\ Pulse(dots[i], LastFrame) = PulseScale
          /\ GetSize(dots[i], LastFrame) = MAX_DOT_SIZE

\* C6 (as claimed): over every pulsation cycle the size of a dot that is not
\* static bright reaches 0 and reaches MAX_DOT_SIZE; with phase 0 at frame 0 the
\* size is 2.  (Stated for the valid configurations, once the frames of one cycle
\* are rendered.)
C6_Original ==
    (Valid(cfg) /\ frame_num >= CycleFrames) =>
        \A i \in 1 .. Len(dots) :
            ~dots[i].is_static_bright =>
                /\ \E f \in (frame_num - CycleFrames) .. LastFrame :
                      GetSize(dots[i], f) = 0
                /\ \E f \in (frame_num - CycleFrames) .. LastFrame :
                      GetSize(dots[i], f) = MAX_DOT_SIZE
                /\ dots[i].phase = <<1, 0>> => GetSize(dots[i], 0) = 2

-----------------------------------------------------------------------------
(* Claim C7: invalid configurations *)

\* A configuration main should reject: a negative dot count, or fractions whose
\* sum exceeds 1.
Invalid(c) ==
    \/ c.NUM_DOTS < 0
    \/ c.MOVING_PERCENTAGE + c.STATIC_BRIGHT_PERCENTAGE > 100

\* C7 (as claimed): a run with an invalid configuration generates no frame,
\* never calls draw_frame (no dot is updated), and never builds a population whose
\* stationary-pulsating remainder is negative.
C7_InvalidRejected ==
    Invalid(cfg) =>
        /\ frames = <<>>
        /\ frame_num = 0
        /\ \A i \in 1 .. Len(dots) : update_calls[i] = 0
        /\ ~(NumPulsating(cfg) < 0 /\ dots # <<>>)
        /\ pc # "done"

-----------------------------------------------------------------------------
(* Claim C3: the population, checked over the configurations of InitFactory *)

Reference ==
    [NUM_DOTS |-> NUM_DOTS,
     MOVING_PERCENTAGE |-> MOVING_PERCENTAGE,
     STATIC_BRIGHT_PERCENTAGE |-> STATIC_BRIGHT_PERCENTAGE]

FactoryFractions == {0, 5, 10, 25, 34, 50, 67, 100}

FactoryConfigs ==
    [NUM_DOTS : (0 .. MaxCount) \cup {NUM_DOTS},
     MOVING_PERCENTAGE : FactoryFractions,
     STATIC_BRIGHT_PERCENTAGE : FactoryFractions]

InitFactory ==
    /\ cfg \in FactoryConfigs
    /\ rng \in 0 .. (NumSeeds - 1)
    /\ dots = <<>>
    /\ dot_list = <<>>
    /\ summary = <<>>
    /\ frame_num = 0
    /\ frames = <<>>
    /\ update_calls = <<>>
    /\ output = <<>>
    /\ pc = "create_dots"

NextFactory == CreateDots \/ SaveDotList

\* main up to the frame loop: create_dots, then save_dot_list.
SpecFactory == InitFactory /\ [][NextFactory]_vars

\* floor(total_count * fraction)
Floor(n, pct) == (n * pct) \div 100

=============================================================================
